---- MODULE Spec2Model ----
(***************************************************************************)
(* Model of the recipe-card generator: the two scripts                     *)
(*   recipe-card-from-json.py      (entry "card")                          *)
(*   generate_recipe_from_json.py  (entry "gen")                           *)
(* Each run of build_pdf is a small sequential process: load the JSON,     *)
(* read the top-level fields, create the document template, append the     *)
(* flowables of every component to the story, then build the pages and     *)
(* save the file.  ComponentBanner is also modelled as a unit of its own   *)
(* (BannerSpec) with arbitrary constructor arguments.                      *)
(*                                                                         *)
(* Lengths are exact integers in units of 1/PT point.  Every length that   *)
(* the code halves is an even number of units, so x / 2.0 is exact here    *)
(* as it is in binary floating point.                                      *)
(***************************************************************************)
EXTENDS Integers, Sequences, FiniteSets, TLC

PT == 100000

MaxComps == 2

MaxOverflow == 1

(***************************************************************************)
(* JSON values, as far as the scripts look at them.                        *)
(***************************************************************************)
Str(s) == [str |-> TRUE, v |-> s]

Num(s) == [str |-> FALSE, v |-> s]

Row(cells) == [list |-> TRUE, cells |-> cells]

NotRow == [list |-> FALSE, cells |-> <<>>]

Absent == [kind |-> "absent", items |-> <<>>]

Null == [kind |-> "null", items |-> <<>>]

Number == [kind |-> "num", items |-> <<>>]

\* the empty object {}: not a list, false, iterates over nothing
EmptyObj == [kind |-> "obj", items |-> <<>>]

List(items) == [kind |-> "list", items |-> items]

Comp(name, eq, ing, ins) ==
    [dict |-> TRUE, hasName |-> TRUE, name |-> name,
     equipment |-> eq, ingredients |-> ing, instructions |-> ins]

NoName(c) == [c EXCEPT !.hasName = FALSE, !.name = ""]

NotDict == [dict |-> FALSE, hasName |-> FALSE, name |-> "",
            equipment |-> Absent, ingredients |-> Absent, instructions |-> Absent]

Flour == Row(<<Str("Flour"), Str("200g")>>)

Sugar == Row(<<Str("Sugar"), Str("100g")>>)

Pan == Row(<<Str("Pan")>>)

Bowl == Row(<<Str("Bowl")>>)

GoodComps ==
    { Comp("Cake", List(<<Pan, Bowl>>), List(<<Flour, Sugar>>),
           List(<<Str("Heat"), Str("Mix")>>)),
      Comp("Frosting", Absent, List(<<Sugar>>), List(<<Str("Whip")>>)),
      Comp("Glaze", List(<<Bowl>>), Absent, List(<<>>)),
      Comp("", Absent, List(<<>>), Absent) }

BadComps ==
    { NotDict,
      NoName(Comp("", Absent, List(<<Flour>>), Absent)),
      Comp("Cake", Absent, List(<<Flour, Row(<<Str("Salt")>>)>>), Absent),
      Comp("Cake", Absent, List(<<NotRow>>), Absent),
      Comp("Cake", Absent, List(<<Row(<<Num("1"), Num("2")>>)>>), Absent),
      Comp("Cake", Absent, Null, Absent),
      Comp("Cake", List(<<Row(<<Num("7")>>)>>), Absent, Absent),
      Comp("Cake", List(<<Row(<<Str("Pan"), Str("Bowl")>>)>>), Absent, Absent),
      Comp("Cake", Number, List(<<Flour>>), Absent),
      Comp("Cake", Absent, Absent, List(<<Str("Heat"), Num("3")>>)),
      Comp("Cake", Absent, Absent, Null),
      Comp("Cake", Absent, Absent, Number) }

CompPool == GoodComps \cup BadComps

CompSeqs == UNION { [1..n -> CompPool] : n \in 0..MaxComps }

Opt(present, v) == [present |-> present, v |-> v]

Titles == { Opt(FALSE, ""), Opt(TRUE, "X") }

Versions == { Opt(FALSE, ""), Opt(TRUE, ""), Opt(TRUE, "v1") }

LineLengths == { Opt(FALSE, 0), Opt(TRUE, 300 * PT), Opt(TRUE, 500 * PT) }

Doc(top, t, v, l, comps) ==
    [top |-> top, title |-> t, version |-> v, line_length |-> l,
     components |-> comps]

NoDoc == Doc("none", Opt(FALSE, ""), Opt(FALSE, ""), Opt(FALSE, 0), Absent)

\* Every combination of the optional keys goes with the documents of at
\* most one component; longer documents have all or none of the keys.
TopShapes == Titles \X Versions \X LineLengths

FewTopShapes ==
    { <<Opt(FALSE, ""), Opt(FALSE, ""), Opt(FALSE, 0)>>,
      <<Opt(TRUE, "X"), Opt(TRUE, "v1"), Opt(TRUE, 500 * PT)>> }

ShortCompSeqs == { cs \in CompSeqs : Len(cs) <= 1 }

Documents ==
    { Doc("dict", s[1], s[2], s[3], List(cs)) :
        s \in TopShapes, cs \in ShortCompSeqs }
    \cup { Doc("dict", s[1], s[2], s[3], List(cs)) :
             s \in FewTopShapes, cs \in CompSeqs }
    \cup { Doc("dict", t, Opt(TRUE, "v1"), Opt(TRUE, 300 * PT), c) :
             t \in Titles, c \in {Absent, Null, Number, EmptyObj} }
    \cup { Doc(k, Opt(FALSE, ""), Opt(FALSE, ""), Opt(FALSE, 0), Absent) :
             k \in {"nofile", "badjson", "list"} }

(***************************************************************************)
(* recipe-card-from-json.py: load_recipe_json                              *)
(***************************************************************************)
NoError == [msg |-> "", idx |-> 0]

Error(msg, idx) == [msg |-> msg, idx |-> idx]

\* any(not isinstance(row, list) or len(row) != n for row in rows)
AnyBadRow(rows, n) ==
    \E r \in 1..Len(rows) : ~rows[r].list \/ Len(rows[r].cells) # n

\* any(not isinstance(s, str) for s in ins)
AnyNonStr(items) == \E r \in 1..Len(items) : ~items[r].str

\* One pass of the "for idx, comp in enumerate(..., start=1)" body: the
\* first check that raises decides the result.
CheckComponent(comp, idx) ==
    IF ~comp.dict THEN Error("components[idx] must be an object", idx)
    ELSE IF ~comp.hasName THEN Error("components[idx] is missing 'name'", idx)
    ELSE IF comp.ingredients.kind # "absent"
            /\ (comp.ingredients.kind # "list"
                \/ AnyBadRow(comp.ingredients.items, 2))
         THEN Error("ingredients must be a list of [name, amount] pairs", idx)
    ELSE IF comp.equipment.kind # "absent"
            /\ (comp.equipment.kind # "list"
                \/ AnyBadRow(comp.equipment.items, 1))
         THEN Error("equipment must be a list of single-item rows", idx)
    ELSE IF comp.instructions.kind # "absent"
            /\ (comp.instructions.kind # "list"
                \/ AnyNonStr(comp.instructions.items))
         THEN Error("instructions must be a list of strings", idx)
    ELSE NoError

\* Variant: the loop leaves after its first pass.
CheckComponentsFirstPassOnly(comps, idx) ==
    IF idx > Len(comps) THEN NoError ELSE CheckComponent(comps[idx], idx)

RECURSIVE CheckComponents(_, _)
CheckComponents(comps, idx) ==
    IF idx > Len(comps) THEN NoError
    ELSE LET e == CheckComponent(comps[idx], idx)
         IN  IF e # NoError THEN e ELSE CheckComponents(comps, idx + 1)

\* The three "Soft warnings" prints, in the order of the code.
Warnings(d) ==
    (IF d.title.present THEN <<>> ELSE <<"WARN: Missing 'title'">>)
    \o (IF d.version.present THEN <<>> ELSE <<"WARN: Missing 'version'">>)
    \o (IF d.line_length.present THEN <<>> ELSE <<"WARN: Missing 'line_length'">>)

Loaded(err, warn, doc) == [err |-> err, warn |-> warn, doc |-> doc]

LoadRecipeJson(d) ==
    IF d.top = "nofile" THEN Loaded(Error("JSON file not found", 0), <<>>, NoDoc)
    ELSE IF d.top = "badjson"
         THEN Loaded(Error("Failed to parse JSON", 0), <<>>, NoDoc)
    ELSE IF d.top # "dict"
         THEN Loaded(Error("Top-level JSON must be an object", 0), <<>>, NoDoc)
    ELSE IF d.components.kind # "list"
         THEN Loaded(Error("JSON must contain a 'components' array", 0), <<>>, NoDoc)
    ELSE LET e == CheckComponents(d.components.items, 1)
         IN  IF e # NoError THEN Loaded(e, Warnings(d), NoDoc)
             ELSE Loaded(NoError, Warnings(d), d)

(***************************************************************************)
(* generate_recipe_from_json.py: open + json.load, no validation           *)
(***************************************************************************)
JsonLoad(d) ==
    IF d.top = "nofile" THEN Loaded(Error("FileNotFoundError", 0), <<>>, NoDoc)
    ELSE IF d.top = "badjson"
         THEN Loaded(Error("JSONDecodeError", 0), <<>>, NoDoc)
    ELSE Loaded(NoError, <<>>, d)

(***************************************************************************)
(* Font metrics of the rendering library (pdfmetrics): per-1000-em face    *)
(* ascent/descent and string widths of the labels used in the model.       *)
(***************************************************************************)
Fonts == {"Helvetica-Bold", "Times-Roman"}

Face(font_name) ==
    IF font_name = "Helvetica-Bold" THEN [ascent |-> 718, descent |-> -207]
    ELSE [ascent |-> 683, descent |-> -217]

Abs(x) == IF x < 0 THEN -x ELSE x

\* "Wide" stands for a name of some forty capital letters, wider than any
\* container; "" is the empty label.
GlyphUnits(text, font_name) ==
    LET bold == font_name = "Helvetica-Bold"
    IN  CASE text = ""         -> 0
          [] text = "v1"       -> 1056
          [] text = "X"        -> IF bold THEN 667 ELSE 722
          [] text = "Cake"     -> IF bold THEN 2390 ELSE 2055
          [] text = "Glaze"    -> IF bold THEN 2722 ELSE 2332
          [] text = "Frosting" -> IF bold THEN 4000 ELSE 3389
          [] OTHER             -> IF bold THEN 37760 ELSE 35520

\* sum of glyph widths * 0.001 * size; sizes are multiples of 0.01 pt
StringWidth(text, font_name, font_size) ==
    GlyphUnits(text, font_name) * (font_size \div 1000)

Min(a, b) == IF a <= b THEN a ELSE b

(***************************************************************************)
(* ComponentBanner, recipe-card-from-json.py                               *)
(***************************************************************************)
BannerArgs(text, cw, ll, lt, font_name, font_size, ga, ptop, pbot, gb, corr) ==
    [text |-> text, container_width |-> cw, line_length |-> ll,
     line_thickness |-> lt, font_name |-> font_name, font_size |-> font_size,
     gap_above |-> ga, padding_top |-> ptop, padding_bottom |-> pbot,
     gap_below |-> gb, top_correction |-> corr]

BannerObj(a, ptop, th, td, bh, w, h) ==
    [text |-> a.text, container_width |-> a.container_width,
     line_length |-> a.line_length, line_thickness |-> a.line_thickness,
     font_name |-> a.font_name, font_size |-> a.font_size,
     gap_above |-> a.gap_above, padding_top |-> ptop,
     padding_bottom |-> a.padding_bottom, gap_below |-> a.gap_below,
     text_height |-> th, text_descent |-> td, band_height |-> bh,
     width |-> w, height |-> h]

\* Variant: the box height takes the box width for gap_below.
CardBannerInitWidthInHeight(a) ==
    LET padding_top == a.padding_top + a.top_correction
        face == Face(a.font_name)
        ascent == (face.ascent * a.font_size) \div 1000
        descent == (Abs(face.descent) * a.font_size) \div 1000
        text_height == ascent + descent
        band_height == padding_top + text_height + a.padding_bottom
    IN  BannerObj(a, padding_top, text_height, descent, band_height,
                  a.container_width,
                  a.gap_above + band_height + a.line_thickness
                  + a.container_width)

CardBannerInit(a) ==
    LET padding_top == a.padding_top + a.top_correction
        face == Face(a.font_name)
        ascent == (face.ascent * a.font_size) \div 1000
        descent == (Abs(face.descent) * a.font_size) \div 1000
        text_height == ascent + descent
        band_height == padding_top + text_height + a.padding_bottom
    IN  BannerObj(a, padding_top, text_height, descent, band_height,
                  a.container_width,
                  a.gap_above + band_height + a.line_thickness + a.gap_below)

Geometry(x0, x1, yb, yt, tx, by, tw, text) ==
    [x0 |-> x0, x1 |-> x1, y_bottom |-> yb, y_top |-> yt,
     tx |-> tx, baseline_y |-> by, text_w |-> tw, text |-> text]

NoGeometry == Geometry(0, 0, 0, 0, 0, 0, 0, "")

\* Variant: the label is centred on the rule length, not on the container.
CardBannerDrawLabelOnRuleLength(b) ==
    LET eff_len == Min(b.line_length, b.container_width)
        x0 == (b.container_width - eff_len) \div 2
        x1 == x0 + eff_len
        y_bottom == b.gap_above
        y_top == b.gap_above + b.band_height
        text_w == StringWidth(b.text, b.font_name, b.font_size)
        tx == (eff_len - text_w) \div 2
        baseline_y == b.gap_above + b.padding_bottom + b.text_descent
    IN  Geometry(x0, x1, y_bottom, y_top, tx, baseline_y, text_w, b.text)

CardBannerDraw(b) ==
    LET eff_len == Min(b.line_length, b.container_width)
        x0 == (b.container_width - eff_len) \div 2
        x1 == x0 + eff_len
        y_bottom == b.gap_above
        y_top == b.gap_above + b.band_height
        text_w == StringWidth(b.text, b.font_name, b.font_size)
        tx == (b.container_width - text_w) \div 2
        baseline_y == b.gap_above + b.padding_bottom + b.text_descent
    IN  Geometry(x0, x1, y_bottom, y_top, tx, baseline_y, text_w, b.text)

(***************************************************************************)
(* ComponentBanner, generate_recipe_from_json.py                           *)
(***************************************************************************)
GenBannerInit(a) ==
    LET padding_top == a.padding_top + a.top_correction
        face == Face(a.font_name)
        ascent == (face.ascent * a.font_size) \div 1000
        descent == (Abs(face.descent) * a.font_size) \div 1000
        text_height == ascent + descent
        band_height == a.padding_bottom + text_height + padding_top
    IN  BannerObj(a, padding_top, text_height, descent, band_height,
                  a.container_width,
                  a.gap_above + band_height + a.line_thickness + a.gap_below)

\* Variant: the baseline is put on padding_top instead of padding_bottom.
GenBannerDrawBaselineOnPaddingTop(b) ==
    LET x0 == (b.container_width - b.line_length) \div 2
        x1 == x0 + b.line_length
        y_bottom == b.gap_above
        y_top == b.gap_above + b.band_height
        text_width == StringWidth(b.text, b.font_name, b.font_size)
        tx == (b.container_width - text_width) \div 2
        baseline_y == b.gap_above + b.padding_top + b.text_descent
    IN  Geometry(x0, x1, y_bottom, y_top, tx, baseline_y, text_width, b.text)

GenBannerDraw(b) ==
    LET x0 == (b.container_width - b.line_length) \div 2
        x1 == x0 + b.line_length
        y_bottom == b.gap_above
        y_top == b.gap_above + b.band_height
        text_width == StringWidth(b.text, b.font_name, b.font_size)
        tx == (b.container_width - text_width) \div 2
        baseline_y == b.gap_above + b.padding_bottom + b.text_descent
    IN  Geometry(x0, x1, y_bottom, y_top, tx, baseline_y, text_width, b.text)

BannerInit(e, a) == IF e = "card" THEN CardBannerInit(a) ELSE GenBannerInit(a)

BannerDraw(e, b) == IF e = "card" THEN CardBannerDraw(b) ELSE GenBannerDraw(b)

(***************************************************************************)
(* Flowables of the story                                                  *)
(***************************************************************************)
NoBanner ==
    [text |-> "", container_width |-> 0, line_length |-> 0,
     line_thickness |-> 0, font_name |-> "", font_size |-> 0,
     gap_above |-> 0, padding_top |-> 0, padding_bottom |-> 0,
     gap_below |-> 0, text_height |-> 0, text_descent |-> 0,
     band_height |-> 0, width |-> 0, height |-> 0]

Flow(kind, style, text, rows, colWidths, space, banner) ==
    [kind |-> kind, style |-> style, text |-> text, data |-> rows,
     colWidths |-> colWidths, space |-> space, banner |-> banner]

PageBreak == Flow("PageBreak", "", "", <<>>, <<>>, 0, NoBanner)

Paragraph(text, style) == Flow("Paragraph", style, text, <<>>, <<>>, 0, NoBanner)

Spacer(h) == Flow("Spacer", "", "", <<>>, <<>>, h, NoBanner)

Table(kind, rows, colWidths, spaceAfter) ==
    Flow(kind, "headered", "", rows, colWidths, spaceAfter, NoBanner)

Banner(b) == Flow("Banner", "", b.text, <<>>, <<>>, 0, b)

\* letter page and the margins given to SimpleDocTemplate
PageWidth == 612 * PT

LeftMargin == 72 * PT

RightMargin == 72 * PT

BottomMargin == 36 * PT

DocWidth == PageWidth - LeftMargin - RightMargin

Result(out, err) == [out |-> out, err |-> err]

Then(r1, r2) ==
    IF r1.err # NoError THEN r1 ELSE Result(r1.out \o r2.out, r2.err)

\* Python truth value of comp.get(key, []): None and [] are false, a
\* non-zero number and a non-empty list are true.
Truthy(field) ==
    field.kind = "num" \/ (field.kind = "list" /\ Len(field.items) > 0)

\* What the table constructor of the library is given when the rows are
\* as the schema says: lists of ncols strings.
Conforms(rows, ncols) ==
    \A r \in 1..Len(rows) :
        /\ rows[r].list
        /\ Len(rows[r].cells) = ncols
        /\ \A c \in 1..ncols : rows[r].cells[c].str

\* Variant: the header row is left out of the table data.
TableOfNoHeader(kind, header, field, colWidths, spaceAfter, strict) ==
    IF field.kind # "list" THEN Result(<<>>, Error("TypeError", 0))
    ELSE IF strict /\ ~Conforms(field.items, Len(colWidths))
         THEN Result(<<>>, Error("ValueError", 0))
    ELSE Result(<<Table(kind, field.items, colWidths, spaceAfter)>>, NoError)

\* Table([header] + field, colWidths=...): list + number is a TypeError;
\* rows that are not as the schema says are either refused by the library
\* (strict) or laid out as they are.
TableOf(kind, header, field, colWidths, spaceAfter, strict) ==
    IF field.kind # "list" THEN Result(<<>>, Error("TypeError", 0))
    ELSE IF strict /\ ~Conforms(field.items, Len(colWidths))
         THEN Result(<<>>, Error("ValueError", 0))
    ELSE Result(<<Table(kind, <<header>> \o field.items, colWidths, spaceAfter)>>,
                NoError)

\* for step in instructions: story.append(Paragraph(step, ...))
RECURSIVE StepParagraphs(_, _, _)
StepParagraphs(items, i, strict) ==
    IF i > Len(items) THEN Result(<<>>, NoError)
    ELSE IF strict /\ ~items[i].str THEN Result(<<>>, Error("TypeError", 0))
    ELSE Then(Result(<<Paragraph(items[i].v, "InstructionBlock")>>, NoError),
              StepParagraphs(items, i + 1, strict))

InstructionsOf(field, strict) ==
    IF ~Truthy(field) THEN Result(<<>>, NoError)
    ELSE Then(Result(<<Paragraph("Instructions", "InstructionHeader")>>, NoError),
              IF field.kind # "list" THEN Result(<<>>, Error("TypeError", 0))
              ELSE StepParagraphs(field.items, 1, strict))

\* The arguments build_pdf passes to ComponentBanner (the same in both
\* scripts).
BuildBannerArgs(name, line_length) ==
    BannerArgs(name, DocWidth, line_length, 283465, "Helvetica-Bold",
               16 * PT, 16 * PT, 6 * PT, 6 * PT, 8 * PT, 2 * PT)

EquipmentHeader == Row(<<Str("Equipment")>>)

IngredientsHeader == Row(<<Str("Ingredient"), Str("Amount")>>)

\* [doc.width * 0.65, doc.width * 0.35]; widths are multiples of 0.001 pt
IngredientWidths == <<(DocWidth \div 100) * 65, (DocWidth \div 100) * 35>>

\* Variant: a page break before the first component as well.
PageBreakBeforeEvery(i) == <<PageBreak>>

\* if idx > 0: story.append(PageBreak())
PageBreakBefore(i) == IF i > 0 THEN <<PageBreak>> ELSE <<>>

\* recipe-card-from-json.py: one pass of the "for idx, comp" loop body
CardComponentFlowables(i, comp, ttl, ll, strict) ==
    Then(Result(PageBreakBefore(i) \o <<Paragraph(ttl, "MainTitle")>>, NoError),
    Then(IF ~comp.dict THEN Result(<<>>, Error("TypeError", i))
         ELSE IF ~comp.hasName THEN Result(<<>>, Error("KeyError", i))
         ELSE Result(<<Banner(CardBannerInit(BuildBannerArgs(comp.name, ll))),
                       Spacer(12 * PT)>>, NoError),
    Then(IF Truthy(comp.equipment)
         THEN Then(TableOf("Equipment", EquipmentHeader, comp.equipment,
                           <<DocWidth>>, 0, strict),
                   Result(<<Spacer(12 * PT)>>, NoError))
         ELSE Result(<<>>, NoError),
    Then(IF Truthy(comp.ingredients)
         THEN TableOf("Ingredients", IngredientsHeader, comp.ingredients,
                      IngredientWidths, 0, strict)
         ELSE Result(<<>>, NoError),
         InstructionsOf(comp.instructions, strict)))))

\* generate_recipe_from_json.py: one pass of the "for i, comp" loop body
GenComponentFlowables(i, comp, ttl, ll, strict) ==
    Then(Result(PageBreakBefore(i) \o <<Paragraph(ttl, "MainTitle")>>, NoError),
    Then(IF ~comp.dict THEN Result(<<>>, Error("TypeError", i))
         ELSE IF ~comp.hasName THEN Result(<<>>, Error("KeyError", i))
         ELSE Result(<<Banner(GenBannerInit(BuildBannerArgs(comp.name, ll))),
                       Spacer(12 * PT)>>, NoError),
    Then(IF Truthy(comp.equipment)
         THEN TableOf("Equipment", EquipmentHeader, comp.equipment,
                      <<DocWidth>>, 12 * PT, strict)
         ELSE Result(<<>>, NoError),
    Then(IF Truthy(comp.ingredients)
         THEN TableOf("Ingredients", IngredientsHeader, comp.ingredients,
                      IngredientWidths, 0, strict)
         ELSE Result(<<>>, NoError),
         InstructionsOf(comp.instructions, strict)))))

ComponentFlowables(e, i, comp, ttl, ll, strict) ==
    IF e = "card" THEN CardComponentFlowables(i, comp, ttl, ll, strict)
    ELSE GenComponentFlowables(i, comp, ttl, ll, strict)

(***************************************************************************)
(* Footers                                                                 *)
(***************************************************************************)
DrawString(x, y, text) == [x |-> x, y |-> y, text |-> text]

\* recipe-card-from-json.py: make_footer(version)._footer
CardFooter(ver) ==
    LET version_text == IF ver.present THEN ver.v ELSE ""
        margin == 36 * PT
        w == StringWidth(version_text, "Helvetica", 8 * PT)
    IN  <<DrawString(PageWidth - margin - w, margin \div 2, version_text)>>

\* generate_recipe_from_json.py: build_pdf._footer
GenFooter(ver) ==
    IF ~ver.present \/ ver.v = "" THEN <<>>
    ELSE LET tw == StringWidth(ver.v, "Helvetica", 8 * PT)
         IN  <<DrawString(PageWidth - RightMargin - tw, BottomMargin, ver.v)>>

Footer(e, ver) == IF e = "card" THEN CardFooter(ver) ELSE GenFooter(ver)

\* Variant: onLaterPages is not passed.
OnFirstPageOnly(e, pageNo, ver) == IF pageNo = 1 THEN Footer(e, ver) ELSE <<>>

\* doc.build(story, onFirstPage=footer, onLaterPages=footer): the callback
\* the template runs when it begins page number pageNo.
OnPage(e, pageNo, ver) == Footer(e, ver)

(***************************************************************************)
(* State                                                                   *)
(***************************************************************************)
VARIABLES
    entry,        \* which script runs: "card" or "gen"
    input,        \* the content of the JSON file
    data,         \* the document load returned (local of build_pdf)
    pc,           \* position of build_pdf
    diag,         \* lines printed on standard output
    err,          \* the exception that ended the run, if any
    exitcode,     \* process exit status, -1 while running
    title, version, line_length, components,   \* locals of build_pdf
    story, idx,   \* the story and the loop index
    rest, pages, overflows,   \* doc.build: flowables left, pages made
    outfile,      \* the output path: "absent" or "written"
    bpc, bargs, banner, size, geom  \* ComponentBanner as a unit

pvars == <<input, data, pc, diag, err, exitcode, title, version, line_length,
           components, story, idx, rest, pages, overflows, outfile>>

bvars == <<bpc, bargs, banner, size, geom>>

vars == <<entry, input, data, pc, diag, err, exitcode, title, version, line_length,
          components, story, idx, rest, pages, overflows, outfile,
          bpc, bargs, banner, size, geom>>

NoArgs == BannerArgs("", 0, 0, 0, "", 0, 0, 0, 0, 0, 0)

Init ==
    /\ entry \in {"card", "gen"}
    /\ input \in Documents
    /\ data = NoDoc
    /\ pc = "start"
    /\ diag = <<>>
    /\ err = NoError
    /\ exitcode = -1
    /\ title = ""
    /\ version = Opt(FALSE, "")
    /\ line_length = 0
    /\ components = Absent
    /\ story = <<>>
    /\ idx = 0
    /\ rest = <<>>
    /\ pages = <<>>
    /\ overflows = 0
    /\ outfile = "absent"
    /\ bpc = "off"
    /\ bargs = NoArgs
    /\ banner = NoBanner
    /\ size = <<0, 0>>
    /\ geom = NoGeometry

\* An exception or SystemExit leaves build_pdf: the process exits non-zero.
Raise(e) ==
    /\ pc' = "error"
    /\ err' = e
    /\ exitcode' = 1

(***************************************************************************)
(* build_pdf, step by step                                                 *)
(***************************************************************************)
\* card line 224: data = load_recipe_json(Path(json_path))
CardLoad ==
    /\ entry = "card"
    /\ pc = "start"
    /\ LET r == LoadRecipeJson(input)
       IN  /\ diag' = diag \o r.warn
           /\ data' = r.doc
           /\ IF r.err # NoError
              THEN Raise(r.err)
              ELSE /\ pc' = "loaded"
                   /\ UNCHANGED <<err, exitcode>>
    /\ UNCHANGED <<entry, input, title, version, line_length, components,
                   story, idx, rest, pages, overflows, outfile>>
    /\ UNCHANGED bvars

\* gen lines 76-77: json.load(f)
GenLoad ==
    /\ entry = "gen"
    /\ pc = "start"
    /\ LET r == JsonLoad(input)
       IN  /\ data' = r.doc
           /\ IF r.err # NoError
              THEN Raise(r.err)
              ELSE /\ pc' = "loaded"
                   /\ UNCHANGED <<err, exitcode>>
    /\ UNCHANGED <<entry, input, diag, title, version, line_length, components,
                   story, idx, rest, pages, overflows, outfile>>
    /\ UNCHANGED bvars

\* card lines 226-238: the locals and the document template
CardReadFields ==
    /\ entry = "card"
    /\ pc = "loaded"
    /\ title' = IF data.title.present THEN data.title.v ELSE "Recipe"
    /\ version' = IF data.version.present THEN data.version ELSE Opt(TRUE, "")
    /\ line_length' = IF data.line_length.present THEN data.line_length.v
                      ELSE 420 * PT
    /\ components' = data.components
    /\ pc' = "story"
    /\ UNCHANGED <<entry, input, data, diag, err, exitcode, story, idx, rest, pages,
                   overflows, outfile>>
    /\ UNCHANGED bvars

\* gen lines 78-102: the locals and the document template
GenReadFields ==
    /\ entry = "gen"
    /\ pc = "loaded"
    /\ IF data.top # "dict"
       THEN /\ Raise(Error("AttributeError", 0))
            /\ UNCHANGED <<title, version, line_length, components>>
       ELSE IF data.components.kind = "absent"
       THEN /\ Raise(Error("KeyError", 0))
            /\ version' = data.version
            /\ title' = IF data.title.present THEN data.title.v
                        ELSE "Milkbar Recipe"
            /\ UNCHANGED <<line_length, components>>
       ELSE /\ version' = data.version
            /\ title' = IF data.title.present THEN data.title.v
                        ELSE "Milkbar Recipe"
            /\ components' = data.components
            /\ line_length' = IF data.line_length.present
                              THEN data.line_length.v ELSE 420 * PT
            /\ pc' = "story"
            /\ UNCHANGED <<err, exitcode>>
    /\ UNCHANGED <<entry, input, data, diag, story, idx, rest, pages, overflows,
                   outfile>>
    /\ UNCHANGED bvars

\* One pass of the loop over enumerate(components); enumerate of a value
\* that is not iterable is a TypeError.
AppendComponent ==
    /\ pc = "story"
    /\ \/ components.kind \notin {"list", "obj"}
       \/ idx < Len(components.items)
    /\ IF components.kind \notin {"list", "obj"}
       THEN /\ Raise(Error("TypeError", 0))
            /\ UNCHANGED <<story, idx>>
       ELSE \E strict \in BOOLEAN :
              LET r == ComponentFlowables(entry, idx, components.items[idx + 1],
                                          title, line_length, strict)
              IN  /\ story' = story \o r.out
                  /\ IF r.err # NoError
                     THEN /\ Raise(r.err)
                          /\ UNCHANGED idx
                     ELSE /\ idx' = idx + 1
                          /\ UNCHANGED <<pc, err, exitcode>>
    /\ UNCHANGED <<entry, input, data, diag, title, version, line_length, components,
                   rest, pages, overflows, outfile>>
    /\ UNCHANGED bvars

\* card lines 341-342, gen line 177: the loop is over, doc.build begins
StartBuild ==
    /\ pc = "story"
    /\ components.kind \in {"list", "obj"}
    /\ idx = Len(components.items)
    /\ pc' = "build"
    /\ rest' = story
    /\ UNCHANGED <<entry, input, data, diag, err, exitcode, title, version,
                   line_length, components, story, idx, pages, overflows,
                   outfile>>
    /\ UNCHANGED bvars

\* What drawing a flowable puts on the page.
DrawFlow(e, f) ==
    [kind |-> f.kind, text |-> f.text, data |-> f.data,
     colWidths |-> f.colWidths,
     g |-> IF f.kind = "Banner" THEN BannerDraw(e, f.banner) ELSE NoGeometry]

\* Index of the first PageBreak of s, Len(s) + 1 when there is none.
FirstBreak(s) ==
    IF \E j \in 1..Len(s) : s[j].kind = "PageBreak"
    THEN CHOOSE j \in 1..Len(s) :
           /\ s[j].kind = "PageBreak"
           /\ \A k \in 1..(j - 1) : s[k].kind # "PageBreak"
    ELSE Len(s) + 1

Page(e, flows, pageNo, ver) ==
    [drawn |-> [j \in 1..Len(flows) |-> DrawFlow(e, flows[j])],
     footer |-> OnPage(e, pageNo, ver)]

\* doc.build, one page: the page callback runs, then flowables are drawn
\* until a PageBreak, the end of the story, or a full frame (the flowables
\* that do not fit go to the next page).  An empty story still makes one
\* page.
RenderPage ==
    /\ pc = "build"
    /\ rest # <<>> \/ pages = <<>>
    /\ LET brk == FirstBreak(rest)
       IN  \/ /\ pages' = Append(pages, Page(entry, SubSeq(rest, 1, brk - 1),
                                             Len(pages) + 1, version))
              /\ rest' = SubSeq(rest, brk + 1, Len(rest))
              /\ UNCHANGED overflows
           \/ /\ overflows < MaxOverflow
              /\ \E k \in 1..(brk - 2) :
                   /\ pages' = Append(pages, Page(entry, SubSeq(rest, 1, k),
                                                  Len(pages) + 1, version))
                   /\ rest' = SubSeq(rest, k + 1, Len(rest))
              /\ overflows' = overflows + 1
    /\ UNCHANGED <<entry, input, data, pc, diag, err, exitcode, title, version,
                   line_length, components, story, idx, outfile>>
    /\ UNCHANGED bvars

\* doc.build, the end: the canvas is saved to out_path and build_pdf returns
SaveFile ==
    /\ pc = "build"
    /\ rest = <<>>
    /\ pages # <<>>
    /\ outfile' = "written"
    /\ pc' = "done"
    /\ exitcode' = 0
    /\ UNCHANGED <<entry, input, data, diag, err, title, version, line_length,
                   components, story, idx, rest, pages, overflows>>
    /\ UNCHANGED bvars

Next ==
    \/ CardLoad
    \/ GenLoad
    \/ CardReadFields
    \/ GenReadFields
    \/ AppendComponent
    \/ StartBuild
    \/ RenderPage
    \/ SaveFile

Spec == Init /\ [][Next]_vars

(***************************************************************************)
(* ComponentBanner as a unit: any arguments, then __init__, wrap, draw     *)
(***************************************************************************)
Labels == {"", "Cake", "Wide"}

ContainerWidths == {300 * PT, 468 * PT}

RuleLengths == {0, 300 * PT, 500 * PT}

FontSizes == {12 * PT, 16 * PT}

Spacings == { <<16 * PT, 6 * PT, 6 * PT, 8 * PT, 2 * PT>>,
              <<0, 4 * PT, 10 * PT, 0, 0>>,
              <<0, 0, 0, 0, 0>> }

BannerInputs ==
    { BannerArgs(t, cw, ll, 283465, f, fs, sp[1], sp[2], sp[3], sp[4], sp[5]) :
        t \in Labels, cw \in ContainerWidths, ll \in RuleLengths,
        f \in Fonts, fs \in FontSizes, sp \in Spacings }

BannerSpecInit ==
    /\ entry \in {"card", "gen"}
    /\ bargs \in BannerInputs
    /\ bpc = "new"
    /\ banner = NoBanner
    /\ size = <<0, 0>>
    /\ geom = NoGeometry
    /\ input = NoDoc
    /\ data = NoDoc
    /\ pc = "off"
    /\ diag = <<>>
    /\ err = NoError
    /\ exitcode = -1
    /\ title = ""
    /\ version = Opt(FALSE, "")
    /\ line_length = 0
    /\ components = Absent
    /\ story = <<>>
    /\ idx = 0
    /\ rest = <<>>
    /\ pages = <<>>
    /\ overflows = 0
    /\ outfile = "absent"

\* ComponentBanner.__init__
NewBanner ==
    /\ bpc = "new"
    /\ banner' = BannerInit(entry, bargs)
    /\ bpc' = "made"
    /\ UNCHANGED <<entry, bargs, size, geom>>
    /\ UNCHANGED pvars

\* ComponentBanner.wrap
WrapBanner ==
    /\ bpc = "made"
    /\ size' = <<banner.width, banner.height>>
    /\ bpc' = "wrapped"
    /\ UNCHANGED <<entry, bargs, banner, geom>>
    /\ UNCHANGED pvars

\* ComponentBanner.draw
DrawBanner ==
    /\ bpc = "wrapped"
    /\ geom' = BannerDraw(entry, banner)
    /\ bpc' = "drawn"
    /\ UNCHANGED <<entry, bargs, banner, size>>
    /\ UNCHANGED pvars

BannerNext == NewBanner \/ WrapBanner \/ DrawBanner

BannerSpec == BannerSpecInit /\ [][BannerNext]_vars

(***************************************************************************)
(* Vocabulary of the properties                                            *)
(***************************************************************************)
\* A row of exactly n strings.
RowOfStrings(row, n) ==
    /\ row.list
    /\ Len(row.cells) = n
    /\ \A c \in 1..n : row.cells[c].str

IsMapping(d) == d.top = "dict"

HasComponents(d) == IsMapping(d) /\ d.components.kind = "list"

\* Some ingredients entry is not a row of two strings, or some equipment
\* entry is not a row of one string.
SomeEntryNotStrings(d) ==
    /\ HasComponents(d)
    /\ \E i \in 1..Len(d.components.items) :
         LET c == d.components.items[i]
         IN  /\ c.dict
             /\ \/ /\ c.ingredients.kind = "list"
                   /\ \E r \in 1..Len(c.ingredients.items) :
                        ~RowOfStrings(c.ingredients.items[r], 2)
                \/ /\ c.equipment.kind = "list"
                   /\ \E r \in 1..Len(c.equipment.items) :
                        ~RowOfStrings(c.equipment.items[r], 1)

\* The fatal conditions of the loader that do not depend on the cell types.
MissingNameAt(d, i) ==
    d.components.items[i].dict /\ ~d.components.items[i].hasName

NonStringInstructionAt(d, i) ==
    LET c == d.components.items[i]
    IN  /\ c.dict
        /\ c.instructions.kind = "list"
        /\ \E r \in 1..Len(c.instructions.items) : ~c.instructions.items[r].str

StructuralFatal(d) ==
    \/ ~IsMapping(d)
    \/ d.components.kind # "list"
    \/ \E i \in 1..Len(d.components.items) :
         MissingNameAt(d, i) \/ NonStringInstructionAt(d, i)

\* A component as the data model describes it.
ValidComponent(c) ==
    /\ c.dict
    /\ c.hasName
    /\ c.equipment.kind \in {"absent", "list"}
    /\ \A r \in 1..Len(c.equipment.items) : RowOfStrings(c.equipment.items[r], 1)
    /\ c.ingredients.kind \in {"absent", "list"}
    /\ \A r \in 1..Len(c.ingredients.items) : RowOfStrings(c.ingredients.items[r], 2)
    /\ c.instructions.kind \in {"absent", "list"}
    /\ \A r \in 1..Len(c.instructions.items) : c.instructions.items[r].str

ValidDocument(d) ==
    /\ HasComponents(d)
    /\ \A i \in 1..Len(d.components.items) : ValidComponent(d.components.items[i])

\* A row of exactly n cells.
RowOfLength(row, n) == row.list /\ Len(row.cells) = n

\* A fatal condition of the loader contract that does not depend on the
\* type of the cells of a row.
Fatal(d) ==
    \/ ~IsMapping(d)
    \/ d.components.kind # "list"
    \/ \E i \in 1..Len(d.components.items) :
         LET c == d.components.items[i]
         IN  \/ ~c.dict
             \/ ~c.hasName
             \/ c.ingredients.kind \notin {"absent", "list"}
             \/ \E r \in 1..Len(c.ingredients.items) :
                  ~RowOfLength(c.ingredients.items[r], 2)
             \/ c.equipment.kind \notin {"absent", "list"}
             \/ \E r \in 1..Len(c.equipment.items) :
                  ~RowOfLength(c.equipment.items[r], 1)
             \/ c.instructions.kind \notin {"absent", "list"}
             \/ \E r \in 1..Len(c.instructions.items) :
                  ~c.instructions.items[r].str

LoadReturned == pc \in {"loaded", "story", "build", "done"} \/ data # NoDoc

Banners(page) == { j \in 1..Len(page.drawn) : page.drawn[j].kind = "Banner" }

(***************************************************************************)
(* C1: for every banner drawn with line_length > container_width, the two  *)
(* rules have length exactly container_width and start at x0 >= 0, in both *)
(* scripts.                                                                *)
(***************************************************************************)
C1_RulesClampedInBothScripts ==
    \A p \in 1..Len(pages) : \A j \in Banners(pages[p]) :
        LET g == pages[p].drawn[j].g
        IN  line_length > DocWidth =>
              /\ g.x1 - g.x0 = DocWidth
              /\ g.x0 >= 0

(***************************************************************************)
(* C2: load_recipe_json fails for every input in which some ingredients    *)
(* entry is not a row of two strings or some equipment entry is not a row  *)
(* of one string.                                                          *)
(***************************************************************************)
C2_LoadRejectsEntriesThatAreNotStrings ==
    (entry = "card" /\ SomeEntryNotStrings(input)) => ~LoadReturned

(***************************************************************************)
(* C3: load_recipe_json is all-or-nothing: it returns the whole document   *)
(* or fails, and it fails whenever the top level is not a mapping,         *)
(* 'components' is missing or not a sequence, or a component at any        *)
(* position lacks 'name' or has an instructions entry that is not a string.*)
(***************************************************************************)
C3_LoadAllOrNothing ==
    (entry = "card" /\ pc # "start") =>
        /\ data = NoDoc \/ data = input
        /\ data = NoDoc =>
             /\ pc = "error"
             /\ exitcode = 1
             /\ story = <<>>
             /\ outfile = "absent"
        /\ StructuralFatal(input) => data = NoDoc

C3_Witness ==
    /\ entry = "card"
    /\ pc = "error"
    /\ data = NoDoc
    /\ HasComponents(input)
    /\ Len(input.components.items) = 2
    /\ ValidComponent(input.components.items[1])
    /\ MissingNameAt(input, 2) \/ NonStringInstructionAt(input, 2)

(***************************************************************************)
(* C4: on an input with a fatal condition the run ends in a non-zero-exit  *)
(* error state, no flowable is emitted and the output file is never        *)
(* written, in both scripts.                                               *)
(***************************************************************************)
C4_FatalInputWritesNothing ==
    Fatal(input) =>
        /\ outfile = "absent"
        /\ story = <<>>
        /\ pc \in {"start", "loaded", "error"}
        /\ exitcode # 0

(***************************************************************************)
(* C5: a valid document that lacks any of 'title', 'version',              *)
(* 'line_length' loads; one diagnostic is printed per missing key; the     *)
(* run uses title "Recipe", line_length 420 and a blank footer; the        *)
(* document is otherwise unchanged.                                        *)
(***************************************************************************)
C5_MissingOptionalKeysDefaulted ==
    ValidDocument(input) =>
        /\ pc # "error"
        /\ pc # "start" => (data = input /\ diag = Warnings(input))
        /\ pc \in {"story", "build", "done"} =>
             /\ ~input.title.present => title = "Recipe"
             /\ input.title.present => title = input.title.v
             /\ ~input.line_length.present => line_length = 420 * PT
             /\ input.line_length.present => line_length = input.line_length.v
             /\ components = input.components
        /\ ~input.version.present =>
             \A p \in 1..Len(pages) :
                \A k \in 1..Len(pages[p].footer) : pages[p].footer[k].text = ""

(***************************************************************************)
(* Vocabulary of the story properties                                      *)
(***************************************************************************)
RECURSIVE Segments(_)
\* The story cut at its page breaks.
Segments(s) ==
    IF s = <<>> THEN <<>>
    ELSE LET b == FirstBreak(s)
         IN  <<SubSeq(s, 1, b - 1)>> \o Segments(SubSeq(s, b + 1, Len(s)))

NotSpacer(f) == f.kind # "Spacer"

IsEquipmentTable(f) == f.kind = "Equipment"

IsIngredientsTable(f) == f.kind = "Ingredients"

IsStep(f) == f.kind = "Paragraph" /\ f.style = "InstructionBlock"

Rank(f) ==
    CASE f.kind = "Paragraph" /\ f.style = "MainTitle" -> 1
      [] f.kind = "Banner" -> 2
      [] f.kind = "Equipment" -> 3
      [] f.kind = "Ingredients" -> 4
      [] OTHER -> 5

StoryComplete == pc \in {"build", "done"}

Items(field) == IF field.kind = "list" THEN field.items ELSE <<>>

(***************************************************************************)
(* C6: for a valid document with n components the story has exactly        *)
(* max(n-1, 0) page breaks, one immediately before each component except   *)
(* the first, none first or last; each component is emitted as title,      *)
(* banner labelled with its name, equipment table, ingredients table,      *)
(* instruction paragraphs, and components come in input order.             *)
(***************************************************************************)
C6_StoryOrder ==
    (StoryComplete /\ ValidDocument(input)) =>
        LET comps == input.components.items
            n == Len(comps)
            breaks == { j \in 1..Len(story) : story[j].kind = "PageBreak" }
            segs == Segments(story)
        IN  /\ Cardinality(breaks) = IF n = 0 THEN 0 ELSE n - 1
            /\ \A j \in breaks :
                 /\ 1 < j /\ j < Len(story)
                 /\ Rank(story[j + 1]) = 1
            /\ Len(segs) = n
            /\ \A i \in 1..n :
                 LET seg == SelectSeq(segs[i], NotSpacer)
                     steps == SelectSeq(seg, IsStep)
                     ins == Items(comps[i].instructions)
                 IN  /\ Len(seg) >= 2
                     /\ Rank(seg[1]) = 1 /\ seg[1].text = title
                     /\ Rank(seg[2]) = 2 /\ seg[2].text = comps[i].name
                     /\ seg[2].banner.text = comps[i].name
                     /\ \A j \in 2..Len(seg) : Rank(seg[j - 1]) <= Rank(seg[j])
                     /\ \A j \in 3..Len(seg) : Rank(seg[j]) > 2
                     /\ Len(steps) = Len(ins)
                     /\ \A j \in 1..Len(ins) : steps[j].text = ins[j].v

C6_Witness ==
    /\ pc = "done"
    /\ ValidDocument(input)
    /\ Len(input.components.items) = 2
    /\ Len(Items(input.components.items[2].equipment)) > 0
    /\ Len(Items(input.components.items[2].ingredients)) > 0
    /\ Len(Items(input.components.items[2].instructions)) > 1
    /\ Cardinality({ j \in 1..Len(story) : story[j].kind = "PageBreak" }) = 1

(***************************************************************************)
(* C7: every rendered page, first and later, gets the footer with the      *)
(* document's version string at the bottom right; when 'version' is absent *)
(* or empty no footer text is drawn on any page.                           *)
(***************************************************************************)
C7_FooterOnEveryPage ==
    \A p \in 1..Len(pages) :
        LET f == pages[p].footer
        IN  IF input.version.present /\ input.version.v # ""
            THEN /\ Len(f) = 1
                 /\ f[1].text = input.version.v
                 /\ LET right == f[1].x + StringWidth(f[1].text, "Helvetica", 8 * PT)
                    IN  PageWidth - RightMargin <= right /\ right < PageWidth
                 /\ 0 < f[1].y /\ f[1].y <= BottomMargin
            ELSE \A k \in 1..Len(f) : f[k].text = ""

C7_Witness ==
    /\ pc = "done"
    /\ Len(pages) >= 3
    /\ overflows > 0
    /\ input.version.v = "v1"
    /\ pages[3].footer[1].text = "v1"

(***************************************************************************)
(* C8: the banner's height (gap_above + band_height + line_thickness +     *)
(* gap_below, band_height = padding_top + top_correction + text_height +   *)
(* padding_bottom) is the same for every container_width; the width        *)
(* equals container_width and nothing else of the banner changes with it.  *)
(***************************************************************************)
C8_HeightIndependentOfContainerWidth ==
    bpc # "new" =>
        /\ banner.band_height = bargs.padding_top + bargs.top_correction
                                + banner.text_height + bargs.padding_bottom
        /\ banner.height = bargs.gap_above + banner.band_height
                           + bargs.line_thickness + bargs.gap_below
        /\ banner.width = bargs.container_width
        /\ \A w \in ContainerWidths :
             LET o == BannerInit(entry, [bargs EXCEPT !.container_width = w])
             IN  /\ o.height = banner.height
                 /\ o.width = w
                 /\ [o EXCEPT !.container_width = banner.container_width,
                              !.width = banner.width] = banner
                 /\ BannerDraw(entry, o).y_bottom = BannerDraw(entry, banner).y_bottom
                 /\ BannerDraw(entry, o).y_top = BannerDraw(entry, banner).y_top
                 /\ BannerDraw(entry, o).baseline_y = BannerDraw(entry, banner).baseline_y

C8_Witness ==
    /\ bpc = "wrapped"
    /\ bargs.container_width = 300 * PT
    /\ size[1] = 300 * PT
    /\ size[2] = banner.height
    /\ banner.height > banner.band_height

(***************************************************************************)
(* C9: for every container width and label, the empty and the over-wide    *)
(* included, 2 * text_x + text_width = container_width: the midpoint of    *)
(* the label is the midpoint of the two rules.                             *)
(***************************************************************************)
C9_LabelCentred ==
    bpc = "drawn" =>
        /\ geom.text_w = StringWidth(bargs.text, bargs.font_name, bargs.font_size)
        /\ 2 * geom.tx + geom.text_w = bargs.container_width
        /\ 2 * geom.tx + geom.text_w = geom.x0 + geom.x1

C9_Witness ==
    /\ bpc = "drawn"
    /\ geom.text_w > bargs.container_width
    /\ geom.tx < 0

(***************************************************************************)
(* C10: in a valid document an ingredients list of k >= 1 rows gives one   *)
(* ingredients table of k+1 rows (header, then the rows in input order)    *)
(* with columns of 65% and 35% of the content width; an equipment list of  *)
(* m >= 1 rows gives one single-column table of m+1 rows of the full       *)
(* content width; an empty or absent list gives no table.                  *)
(***************************************************************************)
C10_Tables ==
    (StoryComplete /\ ValidDocument(input)) =>
        LET comps == input.components.items
            segs == Segments(story)
        IN  /\ Len(segs) = Len(comps)
            /\ \A i \in 1..Len(comps) :
                 LET ing == Items(comps[i].ingredients)
                     eq == Items(comps[i].equipment)
                     ingT == SelectSeq(segs[i], IsIngredientsTable)
                     eqT == SelectSeq(segs[i], IsEquipmentTable)
                 IN  /\ Len(ingT) = IF Len(ing) >= 1 THEN 1 ELSE 0
                     /\ Len(eqT) = IF Len(eq) >= 1 THEN 1 ELSE 0
                     /\ Len(ing) >= 1 =>
                          /\ Len(ingT[1].data) = Len(ing) + 1
                          /\ ingT[1].data[1] = Row(<<Str("Ingredient"), Str("Amount")>>)
                          /\ \A j \in 1..Len(ing) : ingT[1].data[j + 1] = ing[j]
                          /\ Len(ingT[1].colWidths) = 2
                          /\ ingT[1].colWidths[1] + ingT[1].colWidths[2] = DocWidth
                          /\ ingT[1].colWidths[1] * 35 = ingT[1].colWidths[2] * 65
                     /\ Len(eq) >= 1 =>
                          /\ Len(eqT[1].data) = Len(eq) + 1
                          /\ eqT[1].data[1] = Row(<<Str("Equipment")>>)
                          /\ \A j \in 1..Len(eq) : eqT[1].data[j + 1] = eq[j]
                          /\ eqT[1].colWidths = <<DocWidth>>

C10_Witness ==
    /\ pc = "done"
    /\ ValidDocument(input)
    /\ \E i \in 1..Len(input.components.items) :
         /\ Len(Items(input.components.items[i].ingredients)) = 2
         /\ Len(Items(input.components.items[i].equipment)) = 2
         /\ Len(SelectSeq(Segments(story)[i], IsIngredientsTable)[1].data) = 3
         /\ Len(SelectSeq(Segments(story)[i], IsEquipmentTable)[1].data) = 3

(***************************************************************************)
(* C11: with font_size > 0 and non-negative gaps, paddings and             *)
(* top_correction the label lies vertically inside the band and the band   *)
(* inside the box: the bottom rule is not above the bottom of the label    *)
(* (baseline - descent); the top of the label (baseline + ascent) is the   *)
(* top rule lowered by padding_top + top_correction; the two rules are     *)
(* band_height apart; the top rule plus the line thickness is within the   *)
(* box height.                                                             *)
(***************************************************************************)
C11_LabelInsideBandInsideBox ==
    (/\ bpc = "drawn"
     /\ bargs.font_size > 0
     /\ bargs.gap_above >= 0 /\ bargs.gap_below >= 0
     /\ bargs.padding_top >= 0 /\ bargs.padding_bottom >= 0
     /\ bargs.top_correction >= 0) =>
        LET descent == banner.text_descent
            ascent == banner.text_height - banner.text_descent
        IN  /\ ascent > 0 /\ descent > 0
            /\ geom.y_bottom <= geom.baseline_y - descent
            /\ geom.baseline_y + ascent
                 = geom.y_top - (bargs.padding_top + bargs.top_correction)
            /\ geom.baseline_y + ascent <= geom.y_top
            /\ geom.y_top - geom.y_bottom = banner.band_height
            /\ geom.y_top + banner.line_thickness <= banner.height
            /\ banner.height = size[2]

\* The label fills the band exactly: no padding, no gaps.
C11_Witness ==
    /\ bpc = "drawn"
    /\ bargs.padding_top = 0 /\ bargs.padding_bottom = 0
    /\ bargs.top_correction = 0 /\ bargs.gap_below = 0
    /\ geom.y_bottom = geom.baseline_y - banner.text_descent
    /\ geom.y_top = geom.baseline_y + banner.text_height - banner.text_descent
    /\ geom.y_top + banner.line_thickness = banner.height
    /\ geom.y_top > geom.y_bottom

====
